---- MODULE Spec2Model ----
(***************************************************************************)
(* The shape overlay renderer of src/svg.ts: the identity hash of a shape  *)
(* (shapeHash and its sub-hashes), the destination counter, and the render *)
(* cycle renderSvg -> syncDefs -> syncShapes (primitives) -> syncShapes    *)
(* (custom svgs) acting on the three DOM containers.                       *)
(*                                                                         *)
(* JavaScript values are modelled as follows.  An optional value is a      *)
(* sequence of length 0 (undefined) or 1 (the value).  A string is a TLA+  *)
(* string, except the custom svg text, which is a sequence of UTF-16 code  *)
(* units because customSvgHash reads its char codes.  A DOM node is a      *)
(* record with its cgHash / cgKey attribute and the attributes the         *)
(* renderer sets; a container is the sequence of its children.  Which      *)
(* instance a child is, is kept per pass: syncShapes yields, with every    *)
(* child, the position the same instance had before the pass, or 0 for an  *)
(* instance the pass created.  A 32 bit unsigned number is a pair          *)
(* <<hi, lo>> of 16 bit halves.                                            *)
(***************************************************************************)
EXTENDS Integers, Sequences, FiniteSets, TLC

VARIABLES
  app,           \* what the caller of this run draws with (fixed by Init)
  d,             \* state.drawable: shapes, autoShapes, current, brushes, prevSvgHash
  orientation,   \* state.orientation
  defsEl,        \* children of <defs>: the markers
  shapesEl,      \* children of the <g> of svg.cg-shapes
  customSvgsEl,  \* children of the <g> of svg.cg-custom-svgs
  shapes,        \* the local Shape[] of the last call of renderSvg
  log,           \* what the last call of renderSvg did
  fn             \* the call in progress: a pure function and its input and result
                 \* (SpecFn), or renderSvg and the statement it is at (SpecSteps)

vars == <<app, d, orientation, defsEl, shapesEl, customSvgsEl, shapes, log, fn>>

\* ------------------------------------------------------------------ bounds

\* Longest d.shapes list the caller supplies.
MaxShapes == 1
\* Longest custom svg text hashed in SpecFn.
MaxLen == 5

\* ------------------------------------------------------- JavaScript values

Undefined == <<>>

Some(v) == <<v>>

IsDef(o) == o # <<>>

\* Truthiness of an optional string: undefined and '' are falsy.
TruthyStr(o) == o # <<>> /\ o[1] # ""

\* Truthiness of an optional number: undefined and 0 are falsy.
TruthyNum(o) == o # <<>> /\ o[1] # 0

\* Truthiness of an optional custom svg text (a sequence of code units).
TruthyText(o) == o # <<>> /\ Len(o[1]) > 0

RECURSIVE JoinFrom(_, _, _)
JoinFrom(toks, sep, i) ==
  IF i > Len(toks) THEN ""
  ELSE IF i = Len(toks) THEN toks[i]
  ELSE toks[i] \o sep \o JoinFrom(toks, sep, i + 1)

\* Array.prototype.join on an array of strings.
Join(toks, sep) == JoinFrom(toks, sep, 1)

\* [..].filter(x => x) on an array of optional strings: the truthy ones, in order.
FilterTruthy(opts) ==
  LET F[i \in 0..Len(opts)] ==
        IF i = 0 THEN <<>>
        ELSE IF TruthyStr(opts[i]) THEN Append(F[i - 1], opts[i][1]) ELSE F[i - 1]
  IN F[Len(opts)]

\* --------------------------------------------------- 32 bit unsigned numbers

Half == 65536

U32Zero == <<0, 0>>

\* x << 5: the low 32 bits of 32 * x.
Shl5(h) ==
  LET lo5 == h[2] * 32
  IN <<(h[1] * 32 + lo5 \div Half) % Half, lo5 % Half>>

\* a - b modulo 2^32.
U32Sub(a, b) ==
  LET lo == a[2] - b[2]
      borrow == IF lo < 0 THEN 1 ELSE 0
  IN <<(a[1] - b[1] - borrow + 2 * Half) % Half, (lo + Half) % Half>>

\* a + c modulo 2^32, for a code unit c.
U32AddCode(a, c) ==
  LET lo == a[2] + c
  IN <<(a[1] + lo \div Half) % Half, lo % Half>>

\* Quotient and remainder of a 32 bit unsigned number by 10.
U32DivMod10(h) ==
  LET qh == h[1] \div 10
      t == (h[1] % 10) * Half + h[2]
      ql == t \div 10
  IN [q |-> <<qh + ql \div Half, ql % Half>>, r |-> t % 10]

RECURSIVE U32Digits(_)
U32Digits(h) ==
  IF h = U32Zero THEN ""
  ELSE LET dm == U32DivMod10(h) IN U32Digits(dm.q) \o ToString(dm.r)

\* Number.prototype.toString of an unsigned 32 bit number: its decimal digits.
U32ToString(h) == IF h = U32Zero THEN "0" ELSE U32Digits(h)

\* Number to string for the small non-negative integers of pieces and modifiers.
NumToString(n) == ToString(n)

\* ------------------------------------------------------------------ hashes

CustomSvgHashStepNoSub(h, c) == U32AddCode(Shl5(h), c)

\* One round of the loop of customSvgHash: ((h << 5) - h + s.charCodeAt(i)) >>> 0.
\* h << 5 is a signed 32 bit number, the subtraction and the addition are exact,
\* and >>> 0 reduces the exact result modulo 2^32; reduction modulo 2^32 commutes
\* with + and -, so every step is computed on the low 32 bits.
CustomSvgHashStep(h, c) == U32AddCode(U32Sub(Shl5(h), h), c)

\* The value of h after the loop of customSvgHash.
CustomSvgHashValue(s) ==
  LET H[i \in 0..Len(s)] ==
        IF i = 0 THEN U32Zero ELSE CustomSvgHashStep(H[i - 1], s[i])
  IN H[Len(s)]

customSvgHash(s) == "custom-" \o U32ToString(CustomSvgHashValue(s))

\* '' + (m.lineWidth || '')
modifiersHash(m) == IF TruthyNum(m.lineWidth) THEN NumToString(m.lineWidth[1]) ELSE ""

\* [piece.color, piece.role, piece.scale].filter(x => x).join(',')
pieceHash(piece) ==
  Join(FilterTruthy(<<Some(piece.color), Some(piece.role),
                      IF TruthyNum(piece.scale) THEN Some(NumToString(piece.scale[1]))
                      ELSE Undefined>>), ",")

\* arrowDests.get(key) || 0, for a map given as a function on some squares.
DestCount(arrowDests, key) == IF key \in DOMAIN arrowDests THEN arrowDests[key] ELSE 0

\* (arrowDests.get(dest) || 0) > 1
Shorten(arrowDests, dest) == DestCount(arrowDests, dest) > 1

ShapeHashTokensNoShorten(s, arrowDests, current) ==
  <<IF current THEN Some("true") ELSE Undefined,
    Some(s.orig),
    s.dest,
    s.brush,
    Undefined,
    IF IsDef(s.piece) THEN Some(pieceHash(s.piece[1])) ELSE Undefined,
    IF IsDef(s.modifiers) THEN Some(modifiersHash(s.modifiers[1])) ELSE Undefined,
    IF TruthyText(s.customSvg) THEN Some(customSvgHash(s.customSvg[1])) ELSE Undefined>>

\* The array of shapeHash before .filter(x => x): each entry as an optional string
\* (false, undefined and '' are dropped by the filter, true joins as "true").
ShapeHashTokens(s, arrowDests, current) ==
  <<IF current THEN Some("true") ELSE Undefined,
    Some(s.orig),
    s.dest,
    s.brush,
    IF TruthyStr(s.dest) /\ Shorten(arrowDests, s.dest[1]) THEN Some("true") ELSE Undefined,
    IF IsDef(s.piece) THEN Some(pieceHash(s.piece[1])) ELSE Undefined,
    IF IsDef(s.modifiers) THEN Some(modifiersHash(s.modifiers[1])) ELSE Undefined,
    IF TruthyText(s.customSvg) THEN Some(customSvgHash(s.customSvg[1])) ELSE Undefined>>

shapeHash(s, arrowDests, current) ==
  Join(FilterTruthy(ShapeHashTokens(s, arrowDests, current)), ",")

\* ----------------------------------------------------------------- brushes

\* d.brushes[id]: undefined for an absent id and for an id that is no key of the catalog.
Lookup(brushes, id) ==
  IF IsDef(id) /\ id[1] \in DOMAIN brushes THEN Some(brushes[id[1]]) ELSE Undefined

\* Math.round(x / 10) * 10 for an opacity given in percent: Math.round(opacity * 10) / 10.
RoundToTenth(percent) == ((percent + 5) \div 10) * 10

\* makeCustomBrush, for a base brush that is defined. Line widths are integers here,
\* so Math.round leaves them as they are.
makeCustomBrush(base, modifiers) ==
  [color |-> base.color,
   opacity |-> RoundToTenth(base.opacity),
   lineWidth |-> IF TruthyNum(modifiers.lineWidth) THEN modifiers.lineWidth[1]
                 ELSE base.lineWidth,
   key |-> Join(FilterTruthy(<<Some(base.key),
                               IF TruthyNum(modifiers.lineWidth)
                               THEN Some(NumToString(modifiers.lineWidth[1]))
                               ELSE Undefined>>), "")]

\* The brush an arrow is drawn with (syncDefs 94-95, renderShape 190-191), for a
\* shape whose brush is in the catalog.
EffectiveBrush(brushes, s) ==
  IF IsDef(s.modifiers) THEN makeCustomBrush(Lookup(brushes, s.brush)[1], s.modifiers[1])
  ELSE Lookup(brushes, s.brush)[1]

\* ---------------------------------------------------------------- geometry

\* key2pos of util.ts on the squares of the model: file and rank, counted from 0.
key2pos(key) ==
  CASE key = "a1" -> <<0, 0>>
    [] key = "b1" -> <<1, 0>>
    [] key = "a8" -> <<0, 7>>
    [] key = "h8" -> <<7, 7>>

orient(pos, color) == IF color = "white" THEN pos ELSE <<7 - pos[1], 7 - pos[2]>>

pos2user(pos) == <<pos[1], 7 - pos[2]>>

\* arrowMargin, in 64ths of a square.
arrowMargin(shorten) == IF shorten THEN 20 ELSE 10

\* circleWidth, in 64ths of a square.
circleWidth == <<3, 4>>

\* lineWidth, in 6400ths of a square.
lineWidth(brush, current) ==
  (IF brush.lineWidth # 0 THEN brush.lineWidth ELSE 10) * (IF current THEN 85 ELSE 100)

\* opacity, in thousandths (brush opacities are in percent).
opacity(brush, current) ==
  (IF brush.opacity # 0 THEN brush.opacity ELSE 100) * (IF current THEN 9 ELSE 10)

renderCustomSvg(customSvg, pos) ==
  [tag |-> "g", transform |-> pos2user(pos), innerHTML |-> customSvg]

renderCircle(brush, pos, current) ==
  [tag |-> "circle", stroke |-> brush.color,
   strokeWidth |-> circleWidth[IF current THEN 1 ELSE 2],
   opacity |-> opacity(brush, current), c |-> pos2user(pos)]

RenderArrowShortenPreview(brush, orig, dest, current, shorten) ==
  [tag |-> "line", stroke |-> brush.color,
   strokeWidth |-> lineWidth(brush, current),
   markerEnd |-> brush.key,
   opacity |-> opacity(brush, current),
   a |-> pos2user(orig), b |-> pos2user(dest),
   m |-> arrowMargin(shorten)]

\* The end point x2, y2 is b moved back by the margin m along the line from a to b;
\* the node keeps b and m instead of the trigonometry.
renderArrow(brush, orig, dest, current, shorten) ==
  [tag |-> "line", stroke |-> brush.color,
   strokeWidth |-> lineWidth(brush, current),
   markerEnd |-> brush.key,
   opacity |-> opacity(brush, current),
   a |-> pos2user(orig), b |-> pos2user(dest),
   m |-> arrowMargin(shorten /\ ~current)]

\* The file name of a piece image: piece.color[0] and the upper case role letter.
PieceName(piece) ==
  (IF piece.color = "white" THEN "w" ELSE "b")
    \o (CASE piece.role = "knight" -> "N"
          [] piece.role = "king" -> "K"
          [] piece.role = "queen" -> "Q"
          [] piece.role = "rook" -> "R"
          [] piece.role = "bishop" -> "B"
          [] piece.role = "pawn" -> "P")

renderPiece(baseUrl, pos, piece) ==
  [tag |-> "image", className |-> piece.role \o " " \o piece.color,
   o |-> pos2user(pos), href |-> baseUrl \o PieceName(piece) \o ".svg",
   scale |-> IF TruthyNum(piece.scale) THEN piece.scale[1] ELSE 1]

renderMarker(brush) ==
  [tag |-> "marker", fill |-> brush.color, cgKey |-> brush.key]

\* Whether renderShape throws a TypeError: a circle or an arrow reads a property
\* of brushes[shape.brush], which is undefined when the catalog has no such brush.
RenderShapeThrows(sc, brushes) ==
  /\ ~TruthyText(sc.shape.customSvg)
  /\ ~IsDef(sc.shape.piece)
  /\ ~IsDef(Lookup(brushes, sc.shape.brush))

\* Where that TypeError is raised.
RenderShapeThrowSite(sc) ==
  IF TruthyStr(sc.shape.dest)
  THEN IF IsDef(sc.shape.modifiers) THEN "makeCustomBrush" ELSE "renderArrow"
  ELSE "renderCircle"

\* renderShape without the cgHash attribute, for a shape it does not throw on.
RenderShapeEl(baseUrl, orientn, sc, brushes, arrowDests) ==
  IF TruthyText(sc.shape.customSvg)
  THEN renderCustomSvg(sc.shape.customSvg[1], orient(key2pos(sc.shape.orig), orientn))
  ELSE IF IsDef(sc.shape.piece)
  THEN renderPiece(baseUrl, orient(key2pos(sc.shape.orig), orientn), sc.shape.piece[1])
  ELSE IF TruthyStr(sc.shape.dest)
  THEN renderArrow(EffectiveBrush(brushes, sc.shape),
                   orient(key2pos(sc.shape.orig), orientn),
                   orient(key2pos(sc.shape.dest[1]), orientn),
                   sc.current,
                   Shorten(arrowDests, sc.shape.dest[1]))
  ELSE renderCircle(Lookup(brushes, sc.shape.brush)[1],
                    orient(key2pos(sc.shape.orig), orientn), sc.current)

\* renderShape: the element with its cgHash attribute (the instance id is given by
\* the caller, who appends the node).
renderShape(baseUrl, orientn, sc, brushes, arrowDests) ==
  [cgHash |-> sc.hash, el |-> RenderShapeEl(baseUrl, orientn, sc, brushes, arrowDests)]

\* ------------------------------------------------------ the caller's inputs

Shape(orig, dest, brush, piece, modifiers, customSvg) ==
  [orig |-> orig, dest |-> dest, brush |-> brush, piece |-> piece,
   modifiers |-> modifiers, customSvg |-> customSvg]

Arrow(orig, dest, brush) ==
  Shape(orig, Some(dest), Some(brush), Undefined, Undefined, Undefined)

Circle(orig, brush) ==
  Shape(orig, Undefined, Some(brush), Undefined, Undefined, Undefined)

\* The code units of "Aa" and of "BB".
TextAa == <<65, 97>>

TextBB == <<66, 66>>

ArrowA == Arrow("a1", "a8", "green")

\* An arrow from another origin into the same square, with a line width modifier.
ArrowB == [Arrow("b1", "a8", "green") EXCEPT !.modifiers = Some([lineWidth |-> Some(5)])]

Knight ==
  Shape("b1", Undefined, Undefined,
        Some([color |-> "white", role |-> "knight", scale |-> Undefined]),
        Undefined, Undefined)

CustomSvg(orig, text) == Shape(orig, Undefined, Undefined, Undefined, Undefined, Some(text))

\* The arrow being drawn, from b1 to a8.
Preview == Arrow("b1", "a8", "green")

\* The brush catalog d.brushes, by brush name.
Brushes ==
  [green |-> [key |-> "g", color |-> "#15781B", opacity |-> 100, lineWidth |-> 10],
   red |-> [key |-> "r", color |-> "#882020", opacity |-> 100, lineWidth |-> 10]]

\* A catalog a caller configured itself: two brushes whose keys are "k" and "k1",
\* and a brush whose name reads like the hash of a custom svg.
OwnBrushes(color) ==
  [name \in {"k", "k1", "custom-2112"} |->
     [key |-> IF name = "custom-2112" THEN "c" ELSE name,
      color |-> IF name = "k" THEN color ELSE "#003088",
      opacity |-> 100, lineWidth |-> 10]]

\* Arrows with a line width modifier, drawn with the brushes "k" and "k1".
ArrowK == [Arrow("a1", "a8", "k") EXCEPT !.modifiers = Some([lineWidth |-> Some(15)])]

ArrowK1 == [Arrow("b1", "h8", "k1") EXCEPT !.modifiers = Some([lineWidth |-> Some(5)])]

\* The callers of the model, by what they draw with. Each has the shapes it puts in
\* d.shapes, the lists it sets d.autoShapes to, the values it sets d.current to and
\* the orientations it gives the board, the catalog d.brushes starts as and the
\* catalogs it sets d.brushes to.
\*  - an arrow drawer: arrows into one square from two origins, an auto shape that
\*    copies an arrow of d.shapes, and a preview with and without a mouseSq;
\*  - an annotator: an arrow, a circle, a piece and custom svgs, on a board that can
\*    be flipped;
\*  - a caller whose shapes name a brush the catalog does not have;
\*  - a caller with brushes of its own, who changes the color of one of them.
Apps ==
  { [shapes |-> {ArrowA, ArrowB, Circle("a1", "red")},
     autoShapes |-> {<<>>, <<ArrowA>>},
     currents |-> {Undefined,
                   Some([shape |-> Preview, mouseSq |-> Undefined]),
                   Some([shape |-> Preview, mouseSq |-> Some("a8")])},
     orientations |-> {"white"},
     brushes |-> Brushes, catalogs |-> {Brushes}],
    [shapes |-> {ArrowA, Knight, CustomSvg("a1", TextAa)},
     autoShapes |-> {<<>>, <<Circle("a1", "red")>>, <<CustomSvg("a1", TextBB)>>},
     currents |-> {Undefined},
     orientations |-> {"white", "black"},
     brushes |-> Brushes, catalogs |-> {Brushes}],
    [shapes |-> {ArrowA, Circle("b1", "nope"), Arrow("h8", "a8", "nope")},
     autoShapes |-> {<<>>, <<CustomSvg("a1", TextAa)>>},
     currents |-> {Undefined, Some([shape |-> Preview, mouseSq |-> Some("a8")])},
     orientations |-> {"white"},
     brushes |-> Brushes, catalogs |-> {Brushes}],
    [shapes |-> {ArrowK, Circle("a1", "custom-2112")},
     autoShapes |-> {<<>>, <<ArrowK1>>, <<CustomSvg("a1", TextAa)>>},
     currents |-> {Undefined},
     orientations |-> {"white"},
     brushes |-> OwnBrushes("#15781B"),
     catalogs |-> {OwnBrushes("#15781B"), OwnBrushes("#882020")}] }

BaseUrl == "https://lichess1.org/assets/piece/cburnett/"

\* ------------------------------------------------------------- render cycle

\* cur of renderSvg: d.current when it has a mouseSq.
Cur(dr) ==
  IF IsDef(dr.current) /\ TruthyStr(dr.current[1].mouseSq)
  THEN Some(dr.current[1].shape) ELSE Undefined

\* d.shapes.concat(d.autoShapes)
Committed(dr) == dr.shapes \o dr.autoShapes

\* d.shapes.concat(d.autoShapes).concat(cur ? [cur] : [])
Counted(dr) == Committed(dr) \o Cur(dr)

ArrowDestsNoCur(dr) ==
  LET all == Committed(dr)
      dests == {all[i].dest[1] : i \in {j \in 1..Len(all) : TruthyStr(all[j].dest)}}
  IN [k \in dests |->
        Cardinality({i \in 1..Len(all) : TruthyStr(all[i].dest) /\ all[i].dest[1] = k})]

\* arrowDests after the loop of renderSvg: for every square some shape ends on, the
\* number of shapes of the list (the preview included) that end on it.
ArrowDests(dr) ==
  LET all == Counted(dr)
      dests == {all[i].dest[1] : i \in {j \in 1..Len(all) : TruthyStr(all[j].dest)}}
  IN [k \in dests |->
        Cardinality({i \in 1..Len(all) : TruthyStr(all[i].dest) /\ all[i].dest[1] = k})]

\* The local shapes of renderSvg: the committed shapes, then the preview.
Shapes(dr) ==
  LET ad == ArrowDests(dr)
      com == Committed(dr)
  IN [i \in 1..Len(com) |->
        [shape |-> com[i], current |-> FALSE, hash |-> shapeHash(com[i], ad, FALSE)]]
     \o (IF IsDef(Cur(dr))
         THEN <<[shape |-> Cur(dr)[1], current |-> TRUE,
                 hash |-> shapeHash(Cur(dr)[1], ad, TRUE)]>>
         ELSE <<>>)

\* shapes.map(sc => sc.hash).join(';')
FullHash(scs) == Join([i \in 1..Len(scs) |-> scs[i].hash], ";")

PrimitiveShapesAll(scs) == scs

\* shapes.filter(s => !s.shape.customSvg) and shapes.filter(s => s.shape.customSvg)
PrimitiveShapes(scs) == SelectSeq(scs, LAMBDA sc : ~TruthyText(sc.shape.customSvg))

CustomShapes(scs) == SelectSeq(scs, LAMBDA sc : TruthyText(sc.shape.customSvg))

\* The arrows of the list, in order: the shapes syncDefs resolves a brush for.
ArrowIndices(scs) == {i \in 1..Len(scs) : TruthyStr(scs[i].shape.dest)}

\* syncDefs throws a TypeError when it reads a property of an undefined brush.
SyncDefsThrows(dr, scs) ==
  \E i \in ArrowIndices(scs) : ~IsDef(Lookup(dr.brushes, scs[i].shape.brush))

\* makeCustomBrush reads base.color (line 301), syncDefs reads brush.key (line 96).
SyncDefsThrowSite(dr, scs) ==
  LET bad == {i \in ArrowIndices(scs) : ~IsDef(Lookup(dr.brushes, scs[i].shape.brush))}
      first == CHOOSE i \in bad : \A j \in bad : i <= j
  IN IF IsDef(scs[first].shape.modifiers) THEN "makeCustomBrush" ELSE "syncDefs"

\* The entries of the Map brushes of syncDefs, in insertion order: a key keeps the
\* place of its first set and the value of its last.
DefsBrushes(dr, scs) ==
  LET arrows == SelectSeq(scs, LAMBDA sc : TruthyStr(sc.shape.dest))
      brushOf(i) == EffectiveBrush(dr.brushes, arrows[i].shape)
      firsts == SelectSeq([i \in 1..Len(arrows) |-> i],
                          LAMBDA i : \A j \in 1..(i - 1) : brushOf(j).key # brushOf(i).key)
  IN [n \in 1..Len(firsts) |->
        LET lasts == {j \in 1..Len(arrows) : brushOf(j).key = brushOf(firsts[n]).key}
        IN brushOf(CHOOSE j \in lasts : \A k \in lasts : k <= j)]

SyncDefsAlways(dr, scs, defs) ==
  LET brushes == DefsBrushes(dr, scs)
  IN defs \o [n \in 1..Len(brushes) |-> renderMarker(brushes[n])]

SyncDefsNone(dr, scs, defs) == defs

\* syncDefs, when it does not throw: the markers of the brushes whose key no marker
\* of <defs> carries are appended.
syncDefs(dr, scs, defs) ==
  LET keysInDom == {defs[i].cgKey : i \in 1..Len(defs)}
      missing == SelectSeq(DefsBrushes(dr, scs), LAMBDA b : b.key \notin keysInDom)
  IN defs \o [n \in 1..Len(missing) |-> renderMarker(missing[n])]

\* The entries of hashesInDom that the scan of the children sets to true.
HashesInDom(scs, root) ==
  {scs[i].hash : i \in 1..Len(scs)} \cap {root[i].cgHash : i \in 1..Len(root)}

\* The shapes the last loop of syncShapes renders, in order.
ToInsert(scs, root) ==
  SelectSeq(scs, LAMBDA sc : sc.hash \notin HashesInDom(scs, root))

\* How many of them are rendered and appended before renderShape throws.
Inserted(scs, root, brushes) ==
  LET ins == ToInsert(scs, root)
      bad == {i \in 1..Len(ins) : RenderShapeThrows(ins[i], brushes)}
  IN IF bad = {} THEN Len(ins) ELSE (CHOOSE i \in bad : \A j \in bad : i <= j) - 1

SyncShapesThrows(scs, root, brushes) ==
  Inserted(scs, root, brushes) < Len(ToInsert(scs, root))

\* The children of root with their positions.
Positions(root) == [i \in 1..Len(root) |-> [from |-> i, node |-> root[i]]]

SyncShapesRedrawAll(st, scs, brushes, arrowDests, root) ==
  LET good == SelectSeq(scs, LAMBDA sc : ~RenderShapeThrows(sc, brushes))
  IN [n \in 1..Len(good) |->
        [from |-> 0,
         node |-> renderShape(st.baseUrl, st.orientation, good[n], brushes, arrowDests)]]

SyncShapesInListOrder(st, scs, brushes, arrowDests, root) ==
  LET good == SelectSeq(scs, LAMBDA sc : ~RenderShapeThrows(sc, brushes))
      at(h) == {j \in 1..Len(root) : root[j].cgHash = h}
  IN [n \in 1..Len(good) |->
        IF at(good[n].hash) # {}
        THEN Positions(root)[CHOOSE j \in at(good[n].hash) : \A k \in at(good[n].hash) : j <= k]
        ELSE [from |-> 0,
              node |-> renderShape(st.baseUrl, st.orientation, good[n], brushes,
                                   arrowDests)]]

\* syncShapes: the children of root after the call (which may end in a throw of
\* renderShape), each with the position the same instance had before the call, or 0
\* for a new instance. The children whose cgHash is no hash of the list are removed,
\* the others stay as they are, and the shapes whose hash no child carried are
\* rendered and appended in the order of the list.
syncShapes(st, scs, brushes, arrowDests, root) ==
  LET hashes == {scs[i].hash : i \in 1..Len(scs)}
      ins == ToInsert(scs, root)
  IN SelectSeq(Positions(root), LAMBDA c : c.node.cgHash \in hashes)
     \o [n \in 1..Inserted(scs, root, brushes) |->
           [from |-> 0,
            node |-> renderShape(st.baseUrl, st.orientation, ins[n], brushes, arrowDests)]]

\* The nodes of the result of syncShapes, and where each comes from.
Nodes(res) == [i \in 1..Len(res) |-> res[i].node]

Froms(res) == [i \in 1..Len(res) |-> res[i].from]

\* ------------------------------------------------------------- the machine

\* The log of a call: whether it was the second call in a row with the same shapes
\* (repeat), whether it returned at line 47 (shortCircuit), the error it threw and
\* where, whether syncDefs appended markers, whether a pass removed nodes, and for
\* each container how many of its children (the last ones) the call created.
NoLog ==
  [called |-> FALSE, repeat |-> FALSE, shortCircuit |-> FALSE, err |-> "none",
   errAt |-> "", markers |-> FALSE, removed |-> FALSE,
   newShapes |-> 0, newCustomSvgs |-> 0]

\* Before the first call: nothing drawn, empty containers, prevSvgHash ''.
InitDrawable ==
  /\ app \in Apps
  /\ d = [shapes |-> <<>>, autoShapes |-> <<>>, current |-> Undefined,
          brushes |-> app.brushes, baseUrl |-> BaseUrl, prevSvgHash |-> ""]
  /\ orientation = "white"
  /\ defsEl = <<>>
  /\ shapesEl = <<>>
  /\ customSvgsEl = <<>>
  /\ shapes = <<>>
  /\ log = NoLog

Init == InitDrawable /\ fn = [op |-> "none"]

\* d.shapes after the caller drew one more shape, erased one or changed one.
EditedShapeLists ==
  {Append(d.shapes, x) : x \in {y \in app.shapes : Len(d.shapes) < MaxShapes}}
  \cup {[j \in 1..(Len(d.shapes) - 1) |-> IF j < i THEN d.shapes[j] ELSE d.shapes[j + 1]] :
          i \in 1..Len(d.shapes)}
  \cup {[d.shapes EXCEPT ![i] = x] : i \in 1..Len(d.shapes), x \in app.shapes}

\* What the caller may have set by the next call: one of d.shapes, d.autoShapes,
\* d.current, the orientation and d.brushes is new, or nothing is.
Inputs ==
  {[shapes |-> s, autoShapes |-> d.autoShapes, current |-> d.current,
    orientation |-> orientation, brushes |-> d.brushes] : s \in EditedShapeLists}
  \cup {[shapes |-> d.shapes, autoShapes |-> a, current |-> d.current,
         orientation |-> orientation, brushes |-> d.brushes] : a \in app.autoShapes}
  \cup {[shapes |-> d.shapes, autoShapes |-> d.autoShapes, current |-> c,
         orientation |-> orientation, brushes |-> d.brushes] : c \in app.currents}
  \cup {[shapes |-> d.shapes, autoShapes |-> d.autoShapes, current |-> d.current,
         orientation |-> o, brushes |-> d.brushes] : o \in app.orientations}
  \cup {[shapes |-> d.shapes, autoShapes |-> d.autoShapes, current |-> d.current,
         orientation |-> orientation, brushes |-> b] : b \in app.catalogs}

\* renderSvg from line 67 on, for the containers as they are before the call:
\* syncDefs, then syncShapes on the shapes without customSvg, then syncShapes on
\* those with customSvg. A TypeError thrown on the way ends the call there, and
\* what was done before it stays done.
Reconcile(dr, st, scs, defs, prim, custom) ==
  LET ad == ArrowDests(dr)
      primScs == PrimitiveShapes(scs)
      customScs == CustomShapes(scs)
      res1 == syncShapes(st, primScs, dr.brushes, ad, prim)
      res2 == syncShapes(st, customScs, dr.brushes, ad, custom)
      untouched == [defsEl |-> defs, shapesEl |-> prim, customSvgsEl |-> custom,
                    err |-> "none", errAt |-> "",
                    fromShapes |-> Froms(Positions(prim)),
                    fromCustomSvgs |-> Froms(Positions(custom))]
  IN IF SyncDefsThrows(dr, scs)
     THEN [untouched EXCEPT !.err = "TypeError", !.errAt = SyncDefsThrowSite(dr, scs)]
     ELSE IF SyncShapesThrows(primScs, prim, dr.brushes)
     THEN [untouched EXCEPT
             !.defsEl = syncDefs(dr, scs, defs),
             !.shapesEl = Nodes(res1),
             !.fromShapes = Froms(res1),
             !.err = "TypeError",
             !.errAt = RenderShapeThrowSite(
                         ToInsert(primScs, prim)[Inserted(primScs, prim, dr.brushes) + 1])]
     ELSE [untouched EXCEPT
             !.defsEl = syncDefs(dr, scs, defs),
             !.shapesEl = Nodes(res1),
             !.fromShapes = Froms(res1),
             !.customSvgsEl = Nodes(res2),
             !.fromCustomSvgs = Froms(res2)]

\* How many children are new instances, and whether some child of before is gone.
Created(from) == Cardinality({i \in 1..Len(from) : from[i] = 0})

Removes(from, root) == \E j \in 1..Len(root) : \A i \in 1..Len(from) : from[i] # j

NeverSameAsSnapshot(fullHash, prevSvgHash) == FALSE

\* The test of line 47: fullHash === state.drawable.prevSvgHash.
SameAsSnapshot(fullHash, prevSvgHash) == fullHash = prevSvgHash

\* renderSvg: the hashes of the shapes, the return at line 47 when the full hash is
\* the stored one, and otherwise the stored hash is overwritten and the containers
\* are reconciled.
RenderSvg ==
  \E inp \in Inputs :
    \E dr \in {[d EXCEPT !.shapes = inp.shapes, !.autoShapes = inp.autoShapes,
                         !.current = inp.current, !.brushes = inp.brushes]} :
      \E scs \in {Shapes(dr)} :
        \E fullHash \in {FullHash(scs)} :
          \E r \in {IF SameAsSnapshot(fullHash, d.prevSvgHash) THEN [err |-> "none"]
                    ELSE Reconcile(dr, [baseUrl |-> dr.baseUrl,
                                        orientation |-> inp.orientation],
                                   scs, defsEl, shapesEl, customSvgsEl)} :
            LET entry == [NoLog EXCEPT
                            !.called = TRUE,
                            !.repeat = log.called /\ dr.shapes = d.shapes
                                       /\ dr.autoShapes = d.autoShapes
                                       /\ Cur(dr) = Cur(d)]
            IN /\ orientation' = inp.orientation
               /\ shapes' = scs
               /\ IF SameAsSnapshot(fullHash, d.prevSvgHash)
                  THEN /\ d' = dr
                       /\ log' = [entry EXCEPT !.shortCircuit = TRUE]
                       /\ UNCHANGED <<defsEl, shapesEl, customSvgsEl>>
                  ELSE /\ d' = [dr EXCEPT !.prevSvgHash = fullHash]
                       /\ defsEl' = r.defsEl
                       /\ shapesEl' = r.shapesEl
                       /\ customSvgsEl' = r.customSvgsEl
                       /\ log' = [entry EXCEPT
                                    !.err = r.err,
                                    !.errAt = r.errAt,
                                    !.newShapes = Created(r.fromShapes),
                                    !.newCustomSvgs = Created(r.fromCustomSvgs),
                                    !.removed = Removes(r.fromShapes, shapesEl)
                                                \/ Removes(r.fromCustomSvgs, customSvgsEl),
                                    !.markers = Len(r.defsEl) > Len(defsEl)]
               /\ UNCHANGED <<app, fn>>

Next == RenderSvg

Spec == Init /\ [][Next]_vars

\* ------------------------------------------ the render cycle step by step

\* renderSvg up to line 48: the hashes of the shapes, the return at line 47, the
\* store of the full hash. The call then stands before syncDefs (line 71).
BeginRenderSvg ==
  /\ fn.op = "none"
  /\ \E inp \in Inputs :
       \E dr \in {[d EXCEPT !.shapes = inp.shapes, !.autoShapes = inp.autoShapes,
                            !.current = inp.current, !.brushes = inp.brushes]} :
         \E scs \in {Shapes(dr)} :
           \E fullHash \in {FullHash(scs)} :
             LET entry == [NoLog EXCEPT
                             !.called = TRUE,
                             !.repeat = log.called /\ dr.shapes = d.shapes
                                        /\ dr.autoShapes = d.autoShapes
                                        /\ Cur(dr) = Cur(d)]
             IN /\ orientation' = inp.orientation
                /\ shapes' = scs
                /\ IF SameAsSnapshot(fullHash, d.prevSvgHash)
                   THEN /\ d' = dr
                        /\ log' = [entry EXCEPT !.shortCircuit = TRUE]
                        /\ fn' = fn
                   ELSE /\ d' = [dr EXCEPT !.prevSvgHash = fullHash]
                        /\ log' = entry
                        /\ fn' = [op |-> "renderSvg", pc |-> "syncDefs"]
  /\ UNCHANGED <<app, defsEl, shapesEl, customSvgsEl>>

\* Line 71: syncDefs, which appends the missing markers or throws.
StepSyncDefs ==
  /\ fn.op = "renderSvg" /\ fn.pc = "syncDefs"
  /\ IF SyncDefsThrows(d, shapes)
     THEN /\ log' = [log EXCEPT !.err = "TypeError",
                                !.errAt = SyncDefsThrowSite(d, shapes)]
          /\ fn' = [op |-> "none"]
          /\ UNCHANGED defsEl
     ELSE /\ defsEl' = syncDefs(d, shapes, defsEl)
          /\ log' = [log EXCEPT !.markers = Len(defsEl') > Len(defsEl)]
          /\ fn' = [op |-> "renderSvg", pc |-> "syncShapes"]
  /\ UNCHANGED <<app, d, orientation, shapesEl, customSvgsEl, shapes>>

\* Lines 72-78: syncShapes on the shapes without customSvg and the <g> of
\* svg.cg-shapes.
StepSyncShapes ==
  /\ fn.op = "renderSvg" /\ fn.pc = "syncShapes"
  /\ \E res \in {syncShapes([baseUrl |-> d.baseUrl, orientation |-> orientation],
                            PrimitiveShapes(shapes), d.brushes, ArrowDests(d),
                            shapesEl)} :
       /\ shapesEl' = Nodes(res)
       /\ IF SyncShapesThrows(PrimitiveShapes(shapes), shapesEl, d.brushes)
          THEN /\ log' = [log EXCEPT
                            !.err = "TypeError",
                            !.errAt = RenderShapeThrowSite(
                                        ToInsert(PrimitiveShapes(shapes), shapesEl)[
                                          Inserted(PrimitiveShapes(shapes), shapesEl,
                                                   d.brushes) + 1]),
                            !.newShapes = Created(Froms(res)),
                            !.removed = Removes(Froms(res), shapesEl)]
               /\ fn' = [op |-> "none"]
          ELSE /\ log' = [log EXCEPT !.newShapes = Created(Froms(res)),
                                     !.removed = Removes(Froms(res), shapesEl)]
               /\ fn' = [op |-> "renderSvg", pc |-> "syncCustomSvgs"]
  /\ UNCHANGED <<app, d, orientation, defsEl, customSvgsEl, shapes>>

\* Lines 79-85: syncShapes on the shapes with customSvg and the <g> of
\* svg.cg-custom-svgs; renderShape does not read a brush for them.
StepSyncCustomSvgs ==
  /\ fn.op = "renderSvg" /\ fn.pc = "syncCustomSvgs"
  /\ \E res \in {syncShapes([baseUrl |-> d.baseUrl, orientation |-> orientation],
                            CustomShapes(shapes), d.brushes, ArrowDests(d),
                            customSvgsEl)} :
       /\ customSvgsEl' = Nodes(res)
       /\ log' = [log EXCEPT !.newCustomSvgs = Created(Froms(res)),
                             !.removed = @ \/ Removes(Froms(res), customSvgsEl)]
       /\ fn' = [op |-> "none"]
  /\ UNCHANGED <<app, d, orientation, defsEl, shapesEl, shapes>>

NextSteps == BeginRenderSvg \/ StepSyncDefs \/ StepSyncShapes \/ StepSyncCustomSvgs

SpecSteps == Init /\ [][NextSteps]_vars

\* ------------------------------------------- the hash functions on their own

\* The code units of the texts hashed: 'A', 'B', 'a' and the largest code unit.
CodeUnits == {65, 66, 97, 65535}

Texts == UNION {[1..n -> CodeUnits] : n \in 0..MaxLen}

\* The shapes hashed: arrows, circles, pieces and custom svgs, with the falsy values
\* ('' and 0) a field can hold.
FnOrigs == {"a1", "b1"}

FnDests == {Undefined, Some("a8"), Some("b1")}

FnBrushes == {Undefined, Some(""), Some("green"), Some("red")}

FnNumbers == {Undefined, Some(0), Some(1), Some(5)}

FnColors == {"white", "black"}

FnRoles == {"knight", "king"}

FnTexts == {Undefined, Some(<<>>), Some(<<65>>), Some(TextAa), Some(TextBB)}

FnShapes ==
  {Shape(o, de, b, Undefined, m, Undefined) :
     o \in FnOrigs, de \in FnDests \ {Undefined}, b \in {Some("green"), Some("")},
     m \in {Undefined} \cup {Some([lineWidth |-> n]) : n \in FnNumbers}}
  \cup {Shape(o, Undefined, b, Undefined, Undefined, Undefined) :
          o \in FnOrigs, b \in FnBrushes}
  \cup {Shape(o, Undefined, Undefined, Some([color |-> c, role |-> r, scale |-> n]),
              Undefined, Undefined) :
          o \in FnOrigs, c \in FnColors, r \in FnRoles, n \in FnNumbers}
  \cup {Shape(o, Undefined, Undefined, Undefined, Undefined, x) :
          o \in FnOrigs, x \in FnTexts \ {Undefined}}

\* Destination counts: how many arrows end on a8 and on b1.
FnArrowDests == {[a8 |-> n, b1 |-> 1] : n \in 0..2} \cup {[a8 |-> 1, b1 |-> 2]}

\* The shapes that differ from s in the one field named.
Changed(s, field) ==
  CASE field = "orig" -> {[s EXCEPT !.orig = v] : v \in FnOrigs}
    [] field = "dest" -> {[s EXCEPT !.dest = v] : v \in FnDests}
    [] field = "brush" -> {[s EXCEPT !.brush = v] : v \in FnBrushes}
    [] field = "color" ->
         {[s EXCEPT !.piece = Some([@[1] EXCEPT !.color = v])] :
            v \in {c \in FnColors : IsDef(s.piece)}}
    [] field = "role" ->
         {[s EXCEPT !.piece = Some([@[1] EXCEPT !.role = v])] :
            v \in {r \in FnRoles : IsDef(s.piece)}}
    [] field = "scale" ->
         {[s EXCEPT !.piece = Some([@[1] EXCEPT !.scale = v])] :
            v \in {n \in FnNumbers : IsDef(s.piece)}}
    [] field = "lineWidth" ->
         {[s EXCEPT !.modifiers = Some([@[1] EXCEPT !.lineWidth = v])] :
            v \in {n \in FnNumbers : IsDef(s.modifiers)}}
    [] field = "customSvg" -> {[s EXCEPT !.customSvg = v] : v \in FnTexts}
    [] OTHER -> {}

Fields == {"orig", "dest", "brush", "color", "role", "scale", "lineWidth", "customSvg",
           "current", "shorten"}

InitFn ==
  /\ InitDrawable
  /\ fn \in {[op |-> "customSvgHash", done |-> FALSE, s |-> x] : x \in Texts}
            \cup {[op |-> "shapeHash", done |-> FALSE, s |-> x, arrowDests |-> ad,
                   current |-> c] : x \in FnShapes, ad \in FnArrowDests, c \in BOOLEAN}

\* customSvgHash applied to a text.
ApplyCustomSvgHash ==
  /\ fn.op = "customSvgHash" /\ ~fn.done
  /\ fn' = [op |-> "customSvgHash", done |-> TRUE, s |-> fn.s,
            h |-> CustomSvgHashValue(fn.s), out |-> customSvgHash(fn.s)]
  /\ UNCHANGED <<app, d, orientation, defsEl, shapesEl, customSvgsEl, shapes, log>>

\* shapeHash applied to a shape, and to the shape with one thing changed: one field
\* of the shape, the preview flag, or the destination counts so that the count of
\* the shape's destination passes between at most 1 and more than 1.
ApplyShapeHash ==
  /\ fn.op = "shapeHash" /\ ~fn.done
  /\ \E field \in Fields :
       \E s2 \in (IF field \in {"current", "shorten"} THEN {fn.s}
                  ELSE Changed(fn.s, field) \ {fn.s}) :
         \E c2 \in (IF field = "current" THEN {~fn.current} ELSE {fn.current}) :
           \E ad2 \in (IF field = "shorten"
                       THEN {ad \in FnArrowDests :
                               /\ TruthyStr(fn.s.dest)
                               /\ Shorten(ad, fn.s.dest[1])
                                    # Shorten(fn.arrowDests, fn.s.dest[1])}
                       ELSE {fn.arrowDests}) :
             fn' = [op |-> "shapeHash", done |-> TRUE, field |-> field,
                    s |-> fn.s, s2 |-> s2,
                    hash |-> shapeHash(fn.s, fn.arrowDests, fn.current),
                    hash2 |-> shapeHash(s2, ad2, c2)]
  /\ UNCHANGED <<app, d, orientation, defsEl, shapesEl, customSvgsEl, shapes, log>>

NextFn == ApplyCustomSvgHash \/ ApplyShapeHash

SpecFn == InitFn /\ [][NextFn]_vars

\* ------------------------------------------------------------ properties

\* The cgHash tags of the children of a container, and the hashes of a shape list.
ChildHashes(root) == {root[i].cgHash : i \in 1..Len(root)}

TargetHashes(scs) == {scs[i].hash : i \in 1..Len(scs)}

\* Whether some shape of the last call names a brush the catalog does not have.
NamesMissingBrush(sc) ==
  /\ ~TruthyText(sc.shape.customSvg)
  /\ ~IsDef(sc.shape.piece)
  /\ IsDef(sc.shape.brush)
  /\ ~IsDef(Lookup(d.brushes, sc.shape.brush))

\* C1: after every render cycle, the set of cgHash tags of the children of each
\* container equals the set of hashes of the target shapes routed to that container.
C1_TagsEqualTargetHashes ==
  log.called =>
    /\ ChildHashes(shapesEl) = TargetHashes(PrimitiveShapes(shapes))
    /\ ChildHashes(customSvgsEl) = TargetHashes(CustomShapes(shapes))

\* C2: a call that follows a call with the same shapes, auto shapes and preview
\* returns at the snapshot test and changes nothing: no node is added to or removed
\* from <defs> or either container, and the stored snapshot stays as it is.
C2_RepeatedCallDoesNothing ==
  [][(log.called /\ d'.shapes = d.shapes /\ d'.autoShapes = d.autoShapes
        /\ Cur(d') = Cur(d))
       => /\ log'.shortCircuit
          /\ defsEl' = defsEl /\ shapesEl' = shapesEl /\ customSvgsEl' = customSvgsEl
          /\ d'.prevSvgHash = d.prevSvgHash
          /\ log'.newShapes = 0 /\ log'.newCustomSvgs = 0
          /\ ~log'.markers /\ ~log'.removed]_vars

C2_Witness ==
  /\ log.repeat /\ log.shortCircuit
  /\ Len(shapes) > 0 /\ Len(shapesEl) > 0

\* What a call does to one container: the new instances are its last children, the
\* others are the children of before, unmodified and in order, of which at most
\* those with a hash outside the target are gone, and every new instance carries a
\* hash of the target that no child of before carried.
KeepsInstances(root, rootAfter, new, scs) ==
  LET tgt == TargetHashes(scs)
      k == Len(rootAfter) - new
  IN /\ k >= 0
     /\ SubSeq(rootAfter, 1, k) \in {root, SelectSeq(root, LAMBDA n : n.cgHash \in tgt)}
     /\ \A i \in (k + 1)..Len(rootAfter) : rootAfter[i].cgHash \in tgt \ ChildHashes(root)

\* C3: a node whose hash is both in the container before the cycle and in the
\* target is the same instance afterwards, with tag and content as they were; only
\* nodes whose hash is not in the target are removed, and only target hashes the
\* container did not hold are created.
C3_IdentityPreserved ==
  [][/\ KeepsInstances(shapesEl, shapesEl', log'.newShapes, PrimitiveShapes(shapes'))
     /\ KeepsInstances(customSvgsEl, customSvgsEl', log'.newCustomSvgs,
                       CustomShapes(shapes'))]_vars

C3_Witness ==
  /\ log.err = "none" /\ log.removed
  /\ log.newShapes > 0 /\ Len(shapesEl) > log.newShapes

\* C4: a marker, once in <defs>, is never removed or modified by a later cycle,
\* and no two markers of <defs> carry the same key.
C4_MarkersAppendOnly ==
  [][/\ Len(defsEl) <= Len(defsEl')
     /\ SubSeq(defsEl', 1, Len(defsEl)) = defsEl
     /\ \A i, j \in 1..Len(defsEl') :
          defsEl'[i].cgKey = defsEl'[j].cgKey => i = j]_vars

\* A brush that went out of use and is used again: the arrow is a new node, and its
\* marker is the one that was in <defs> already.
C4_Witness ==
  /\ log.called /\ ~log.shortCircuit /\ log.err = "none" /\ ~log.markers
  /\ log.newShapes > 0
  /\ \E i \in ArrowIndices(shapes) :
       /\ shapesEl[Len(shapesEl)].cgHash = shapes[i].hash
       /\ \E n \in 1..Len(defsEl) :
            defsEl[n].cgKey = EffectiveBrush(d.brushes, shapes[i].shape).key

\* C5: after every render cycle, <defs> holds exactly one marker for the derived
\* brush of every arrow of the target.
C5_MarkerForEveryArrow ==
  log.called =>
    \A i \in ArrowIndices(shapes) :
      IsDef(Lookup(d.brushes, shapes[i].shape.brush)) =>
        Cardinality({n \in 1..Len(defsEl) :
                       defsEl[n].cgKey = EffectiveBrush(d.brushes, shapes[i].shape).key}) = 1

\* Both values of a field are dropped from the hash: absent, '' or 0.
BothFalsy(field, s, s2) ==
  CASE field = "brush" -> ~TruthyStr(s.brush) /\ ~TruthyStr(s2.brush)
    [] field = "customSvg" -> ~TruthyText(s.customSvg) /\ ~TruthyText(s2.customSvg)
    [] field = "scale" -> ~TruthyNum(s.piece[1].scale) /\ ~TruthyNum(s2.piece[1].scale)
    [] field = "lineWidth" ->
         ~TruthyNum(s.modifiers[1].lineWidth) /\ ~TruthyNum(s2.modifiers[1].lineWidth)
    [] OTHER -> FALSE

\* Two markup texts with the same 32-bit rolling hash.
SameTextHash(field, s, s2) ==
  /\ field = "customSvg"
  /\ TruthyText(s.customSvg) /\ TruthyText(s2.customSvg)
  /\ CustomSvgHashValue(s.customSvg[1]) = CustomSvgHashValue(s2.customSvg[1])

\* C6 as stated: changing any one of origin, destination, brush id, piece color,
\* piece role, piece scale, line width, markup text, the preview flag or the
\* shorten flag changes the hash of the shape.
C6_AnyChangeChangesHash ==
  (fn.op = "shapeHash" /\ fn.done) => fn.hash # fn.hash2

\* C6: changing one of these changes the hash of the shape, unless the old and the
\* new value of brush id, piece scale, line width or markup text are both absent,
\* '' or 0, or the old and the new markup text have the same 32-bit rolling hash.
C6_ChangeChangesHash ==
  (fn.op = "shapeHash" /\ fn.done) =>
    \/ fn.hash # fn.hash2
    \/ BothFalsy(fn.field, fn.s, fn.s2)
    \/ SameTextHash(fn.field, fn.s, fn.s2)

C6_Witness ==
  /\ fn.op = "shapeHash" /\ fn.done
  /\ fn.field = "shorten"
  /\ fn.hash # fn.hash2

\* The shapes of the last call that end on a square, and their distinct origins.
EndingOn(q) == {i \in ArrowIndices(shapes) : shapes[i].shape.dest[1] = q}

OriginsOf(q) == {shapes[i].shape.orig : i \in EndingOn(q)}

\* The hash of a shape of the last call if its shorten flag were f.
HashWithShorten(sc, f) ==
  shapeHash(sc.shape, [q \in {sc.shape.dest[1]} |-> IF f THEN 2 ELSE 1], sc.current)

\* C7 as stated: the shorten flag in the hash of an arrow is true exactly when the
\* arrows ending on its destination (preview included) come from at least two
\* distinct origins.
C7_ShortenIffTwoOrigins ==
  \A i \in ArrowIndices(shapes) :
    shapes[i].hash =
      HashWithShorten(shapes[i], Cardinality(OriginsOf(shapes[i].shape.dest[1])) >= 2)

\* C7: the shorten flag in the hash of an arrow is true exactly when at least two
\* shapes of the list (committed, automatic and preview, each occurrence counted)
\* end on its destination, whatever their origins.
C7_ShortenIffTwoArrows ==
  \A i \in ArrowIndices(shapes) :
    shapes[i].hash =
      HashWithShorten(shapes[i], Cardinality(EndingOn(shapes[i].shape.dest[1])) >= 2)

C7_Witness ==
  \E i \in ArrowIndices(shapes) :
    /\ Cardinality(EndingOn(shapes[i].shape.dest[1])) >= 2
    /\ shapes[i].hash \in ChildHashes(shapesEl)
    /\ log.err = "none"

\* How many children of a container carry a hash, and how many shapes of a list.
TagCount(root, h) == Cardinality({i \in 1..Len(root) : root[i].cgHash = h})

HashCount(scs, h) == Cardinality({i \in 1..Len(scs) : scs[i].hash = h})

\* C8: after every reconciliation pass the tags of a container are, as a multiset,
\* the hashes of the target shapes routed to it, without duplicates.
C8_TagsAreTargetMultiset ==
  (log.called /\ ~log.shortCircuit /\ log.err = "none") =>
    /\ \A h \in ChildHashes(shapesEl) \cup TargetHashes(PrimitiveShapes(shapes)) :
         /\ TagCount(shapesEl, h) = HashCount(PrimitiveShapes(shapes), h)
         /\ TagCount(shapesEl, h) = 1
    /\ \A h \in ChildHashes(customSvgsEl) \cup TargetHashes(CustomShapes(shapes)) :
         /\ TagCount(customSvgsEl, h) = HashCount(CustomShapes(shapes), h)
         /\ TagCount(customSvgsEl, h) = 1

\* (31 * h + c) mod 2^32 on 16-bit halves.
Mul31Add(h, c) ==
  LET lo == 31 * h[2] + c
  IN <<(31 * h[1] + lo \div Half) % Half, lo % Half>>

\* The polynomial hash of a text: the sum of unit_i * 31^(n-1-i), mod 2^32.
RECURSIVE PolyHash(_)
PolyHash(s) ==
  IF s = <<>> THEN U32Zero ELSE Mul31Add(PolyHash(SubSeq(s, 1, Len(s) - 1)), s[Len(s)])

\* The decimal digits of a number below 100000, padded to five places.
Pad5(r) ==
  (IF r < 10 THEN "0000" ELSE IF r < 100 THEN "000" ELSE IF r < 1000 THEN "00"
   ELSE IF r < 10000 THEN "0" ELSE "") \o ToString(r)

\* The decimal rendering of hi * 65536 + lo, by quotient and remainder of 100000.
Decimal(h) ==
  LET x == h[1] * 65
      rest == (x % 100) * 1000 + h[1] * 536 + h[2]
      q == x \div 100 + rest \div 100000
      r == rest % 100000
  IN IF q = 0 THEN ToString(r) ELSE ToString(q) \o Pad5(r)

\* C9: customSvgHash of a text is "custom-" followed by the decimal rendering of
\* the polynomial hash of its code units with multiplier 31, reduced to an unsigned
\* 32-bit value: never negative, and the same for the same text.
C9_CustomSvgHashIsPolynomial ==
  (fn.op = "customSvgHash" /\ fn.done) =>
    /\ fn.h = PolyHash(fn.s)
    /\ fn.h[1] \in 0..(Half - 1) /\ fn.h[2] \in 0..(Half - 1)
    /\ fn.out = "custom-" \o Decimal(PolyHash(fn.s))

\* A text whose polynomial sum exceeds 32 bits and whose hash has the top bit set.
C9_Witness ==
  /\ fn.op = "customSvgHash" /\ fn.done
  /\ Len(fn.s) = MaxLen
  /\ fn.s[1] = 65535
  /\ fn.h[1] >= Half \div 2

\* C10: a cycle that renders a target shape naming a brush the catalog does not
\* have fails with BrushNotFound at brush resolution, and the missing brush is not
\* passed on into the rendering of the geometry.
C10_MissingBrushIsBrushNotFound ==
  (log.called /\ ~log.shortCircuit
     /\ \E i \in 1..Len(shapes) : NamesMissingBrush(shapes[i]))
    => /\ log.err = "BrushNotFound"
       /\ log.errAt \notin {"renderCircle", "renderArrow", "makeCustomBrush"}

\* Whether the children of both containers carry exactly the hashes of the shape
\* list of the last call.
InSync ==
  /\ ChildHashes(shapesEl) = TargetHashes(PrimitiveShapes(shapes))
  /\ ChildHashes(customSvgsEl) = TargetHashes(CustomShapes(shapes))

\* C11: in no state is the stored snapshot the full hash of a shape list while the
\* containers do not hold exactly the hashes of that list, also after a cycle that
\* aborted on a missing brush; so no call returns at the snapshot test while the
\* containers are out of sync.
C11_SnapshotMeansInSync ==
  /\ (log.called /\ d.prevSvgHash = FullHash(shapes)) => InSync
  /\ log.shortCircuit => InSync

\* How many arrows of a shape list end on a square.
CountInto(scs, q) == Cardinality({i \in ArrowIndices(scs) : scs[i].shape.dest[1] = q})

\* An arrow of the list of this call was in the list of the call before with the
\* same fields (as the j-th shape), and the number of arrows into its destination
\* passed between at most 1 and at least 2.
CountCrossed(scs, j, scsAfter, i) ==
  /\ i \in ArrowIndices(scsAfter)
  /\ scs[j].shape = scsAfter[i].shape
  /\ scs[j].current = scsAfter[i].current
  /\ (CountInto(scs, scsAfter[i].shape.dest[1]) <= 1)
       # (CountInto(scsAfter, scsAfter[i].shape.dest[1]) <= 1)

\* The hashes of the children a call created in the primitive container (its last
\* newShapes children).
NewHashes(root, new) == {root[n].cgHash : n \in (Len(root) - new + 1)..Len(root)}

\* C12: when the number of arrows into a square passes from at most 1 to at least 2
\* or back from one cycle to the next, every arrow into the square whose fields did
\* not change has a new hash, and in that cycle its node is removed and a newly
\* created node takes its place.
C12_CountChangeReplacesArrows ==
  [][\A i \in 1..Len(shapes') : \A j \in 1..Len(shapes) :
       CountCrossed(shapes, j, shapes', i) =>
         /\ shapes'[i].hash # shapes[j].hash
         /\ shapes[j].hash \notin ChildHashes(shapesEl')
         /\ shapes'[i].hash \in NewHashes(shapesEl', log'.newShapes)]_vars

\* The arrows among the children of the primitive container.
ArrowNodes == {n \in 1..Len(shapesEl) : shapesEl[n].el.tag = "line"}

\* The shapes of the last call that a child stands for: those with its hash.
ShapesOf(n) == {i \in 1..Len(shapes) : shapes[i].hash = shapesEl[n].cgHash}

\* The margins are in 64ths of a square: 20 is the increased margin, 10 the normal one.
\* C13 as stated: every arrow node of a shape whose destination has a count
\* greater than 1 has the increased margin, and every arrow node whose destination
\* has a count of at most 1 has the normal margin, for committed arrows and for
\* the preview alike.
C13_MarginIffShorten ==
  \A n \in ArrowNodes : \A i \in ShapesOf(n) :
    shapesEl[n].el.m =
      (IF CountInto(shapes, shapes[i].shape.dest[1]) > 1 THEN 20 ELSE 10)

\* C13: every arrow node of a committed shape has the increased margin when the
\* count of its destination is greater than 1 and the normal margin otherwise; the
\* node of the preview arrow has the normal margin whatever the count, also when
\* its hash carries the shorten flag.
C13_MarginIffShortenAndCommitted ==
  \A n \in ArrowNodes : \A i \in ShapesOf(n) :
    shapesEl[n].el.m =
      (IF CountInto(shapes, shapes[i].shape.dest[1]) > 1 /\ ~shapes[i].current
       THEN 20 ELSE 10)

\* A preview arrow and a committed arrow into one square, both drawn.
C13_Witness ==
  /\ log.err = "none"
  /\ \E n1, n2 \in ArrowNodes : \E i1 \in ShapesOf(n1), i2 \in ShapesOf(n2) :
       /\ shapes[i1].current /\ ~shapes[i2].current
       /\ shapes[i1].shape.dest = shapes[i2].shape.dest
       /\ shapesEl[n1].el.m = 10
       /\ shapesEl[n2].el.m = 20

\* Whether every child of a container that carries the hash of a shape routed to
\* it by the last call is the node renderShape makes for that shape from what the
\* state holds now.
AsRendered(root, scs) ==
  \A n \in 1..Len(root) : \A i \in 1..Len(scs) :
    (scs[i].hash = root[n].cgHash /\ ~RenderShapeThrows(scs[i], d.brushes)) =>
      root[n] = renderShape(d.baseUrl, orientation, scs[i], d.brushes, ArrowDests(d))

\* C14: whatever changes what is drawn for a shape (its fields, the preview flag,
\* the shorten flag, the orientation of the board, the catalog entry of its brush)
\* changes its hash, so after any sequence of cycles every live node is what
\* renderShape produces for its shape under the inputs of the current cycle.
C14_NoStaleNode ==
  log.called =>
    /\ AsRendered(shapesEl, PrimitiveShapes(shapes))
    /\ AsRendered(customSvgsEl, CustomShapes(shapes))

\* The arrows of the last call whose brush the catalog has.
DrawnArrows == {i \in ArrowIndices(shapes) : IsDef(Lookup(d.brushes, shapes[i].shape.brush))}

\* The key of the base brush of an arrow and its line width override, if any.
Combination(s) ==
  <<Lookup(d.brushes, s.brush)[1].key,
    IF IsDef(s.modifiers) THEN s.modifiers[1].lineWidth ELSE Undefined>>

\* C16: two arrows whose pairs of base brush key and line width override differ
\* have different derived keys, so <defs> has one marker for each combination and
\* no two combinations share a marker.
C16_CombinationsHaveOwnMarkers ==
  \A i, j \in DrawnArrows :
    Combination(shapes[i].shape) # Combination(shapes[j].shape) =>
      EffectiveBrush(d.brushes, shapes[i].shape).key
        # EffectiveBrush(d.brushes, shapes[j].shape).key

\* The cgHash tags of the children of a container, in order.
TagSeq(root) == [n \in 1..Len(root) |-> root[n].cgHash]

\* What a call does to the order of one container: the children it did not create
\* are children of before in the order of before, the children it created come
\* after them, and these carry, one by one, the hashes of the shapes of the list
\* that no child of before carried, in the order of the list (up to the shape a
\* throw stopped the pass at).
KeepsOrder(root, rootAfter, new, scs) ==
  LET k == Len(rootAfter) - new
      kept == SubSeq(rootAfter, 1, k)
      fresh == SelectSeq(scs, LAMBDA sc : sc.hash \notin ChildHashes(root))
  IN /\ k >= 0
     /\ kept = SelectSeq(root, LAMBDA x : x.cgHash \in ChildHashes(kept))
     /\ new <= Len(fresh)
     /\ \A n \in 1..new : rootAfter[k + n].cgHash = fresh[n].hash

\* C18: a pass keeps the relative order of the surviving nodes and appends the new
\* nodes after all of them, in the order of the shape list (persistent shapes, auto
\* shapes, preview); so the order of the children can differ from the order of the
\* list.
C18_SurvivorsFirstThenListOrder ==
  [][/\ KeepsOrder(shapesEl, shapesEl', log'.newShapes, PrimitiveShapes(shapes'))
     /\ KeepsOrder(customSvgsEl, customSvgsEl', log'.newCustomSvgs,
                   CustomShapes(shapes'))]_vars

\* The children carry the hashes of the list, one child for each shape, in another
\* order than the list: a survivor stands before a new node whose shape comes
\* first in the list.
C18_Witness ==
  /\ log.err = "none" /\ ~log.shortCircuit
  /\ log.newShapes > 0 /\ Len(shapesEl) > log.newShapes
  /\ InSync
  /\ Len(shapesEl) = Len(PrimitiveShapes(shapes))
  /\ TagSeq(shapesEl) # [i \in 1..Len(PrimitiveShapes(shapes)) |-> PrimitiveShapes(shapes)[i].hash]

\* A child made by renderCustomSvg is a <g>; renderCircle, renderArrow and
\* renderPiece make a <circle>, a <line> and an <image>.
FromMarkup(node) == node.el.tag = "g"

\* Every child of the primitive container was made from a shape without markup and
\* every child of the markup container from a shape with markup.
Separated ==
  /\ \A n \in 1..Len(shapesEl) : ~FromMarkup(shapesEl[n])
  /\ \A n \in 1..Len(customSvgsEl) : FromMarkup(customSvgsEl[n])

\* The pass over one container leaves the other container as it is.
PassesKeepApart ==
  /\ (fn.op = "renderSvg" /\ fn.pc = "syncShapes") => customSvgsEl' = customSvgsEl
  /\ (fn.op = "renderSvg" /\ fn.pc = "syncCustomSvgs") => shapesEl' = shapesEl

\* C15 as stated: the children of the primitive container come from shapes without
\* markup and those of the markup container from shapes with markup, no hash is in
\* both containers, and a pass over one container never adds to or removes from the
\* other.
C15_SeparatedAndDisjoint ==
  /\ [](Separated /\ ChildHashes(shapesEl) \cap ChildHashes(customSvgsEl) = {})
  /\ [][PassesKeepApart]_vars

\* C15: the children of the primitive container come from shapes without markup
\* and those of the markup container from shapes with markup, and a pass over one
\* container never adds to or removes from the other; a hash can be in both
\* containers, when the hash of a shape without markup reads like that of a shape
\* with markup.
C15_Separated ==
  /\ []Separated
  /\ [][PassesKeepApart]_vars

\* Between the two passes: the first has created nodes, the second is about to
\* create a node in the markup container.
C15_Witness ==
  /\ fn.op = "renderSvg" /\ fn.pc = "syncCustomSvgs"
  /\ log.newShapes > 0
  /\ \E i \in 1..Len(CustomShapes(shapes)) :
       CustomShapes(shapes)[i].hash \notin ChildHashes(customSvgsEl)

\* The keys of the markers of <defs>.
MarkerKeys == {defsEl[n].cgKey : n \in 1..Len(defsEl)}

\* C17: in every state, between the statements of a cycle as well, the marker an
\* arrow node of the primitive container refers to is in <defs>: it is appended
\* before the arrow node that uses it, and no marker is removed.
C17_NoDanglingMarker ==
  /\ [](\A n \in ArrowNodes : shapesEl[n].el.markerEnd \in MarkerKeys)
  /\ [][SubSeq(defsEl', 1, Len(defsEl)) = defsEl]_vars

\* After syncDefs and before syncShapes: the marker of an arrow is there, the
\* arrow node is not yet.
C17_Witness ==
  /\ fn.op = "renderSvg" /\ fn.pc = "syncShapes"
  /\ log.markers
  /\ \E i \in ArrowIndices(shapes) :
       /\ shapes[i].hash \notin ChildHashes(shapesEl)
       /\ EffectiveBrush(d.brushes, shapes[i].shape).key \in MarkerKeys

====
